---- MODULE Spec2Model ----
(***************************************************************************)
(* A model of simplegeoip2.py: the GeoIP class (lookup, is_private_ip),    *)
(* the batch operation process_ip_addresses with its thread pool, and the  *)
(* command-line entry point _main.                                         *)
(*                                                                         *)
(* Python values: a str is a TLA+ string, an int an integer, a float an    *)
(* integer number of degrees; an optional value is <<>> for None and <<v>> *)
(* for the value v.  An OrderedDict is a sequence of <<key, value>> pairs  *)
(* in insertion order.  A call that may raise returns a record whose exc   *)
(* field names the exception ("none" when it returned normally).           *)
(***************************************************************************)
EXTENDS Integers, Sequences, FiniteSets, TLC

None == <<>>
Some(v) == <<v>>

\* Python truthiness of an optional str: None and "" are false.
Truthy(x) == x # None /\ x[1] # ""

(***************************************************************************)
(* str.split('.') and int(), computed character by character.             *)
(***************************************************************************)
CharAt(s, i) == SubSeq(s, i, i)

RECURSIVE SplitFrom(_, _, _)
SplitFrom(s, start, i) ==
    IF i > Len(s) THEN <<SubSeq(s, start, Len(s))>>
    ELSE IF CharAt(s, i) = "." THEN <<SubSeq(s, start, i - 1)>> \o SplitFrom(s, i + 1, i + 1)
    ELSE SplitFrom(s, start, i + 1)

split(s) == SplitFrom(s, 1, 1)

DigitChars == "0123456789"

IsDigit(c) == \E d \in 1..10 : CharAt(DigitChars, d) = c

DigitVal(c) == (CHOOSE d \in 1..10 : CharAt(DigitChars, d) = c) - 1

RECURSIVE DigitsValue(_, _)
DigitsValue(s, n) ==
    IF n = 0 THEN 0 ELSE 10 * DigitsValue(s, n - 1) + DigitVal(CharAt(s, n))

AllDigits(s) == Len(s) > 0 /\ \A i \in 1..Len(s) : IsDigit(CharAt(s, i))

\* int(s) for the literals of the address universe: an optional sign and then
\* decimal digits; anything else raises ValueError.
int(s) ==
    LET signed == Len(s) > 0 /\ CharAt(s, 1) \in {"+", "-"}
        body == IF signed THEN SubSeq(s, 2, Len(s)) ELSE s
    IN  IF ~AllDigits(body) THEN [exc |-> "ValueError", value |-> 0]
        ELSE [exc |-> "none",
              value |-> IF signed /\ CharAt(s, 1) = "-"
                        THEN 0 - DigitsValue(body, Len(body))
                        ELSE DigitsValue(body, Len(body))]

(***************************************************************************)
(* GeoIP.is_private_ip.  The conjunction short-circuits from the left, so  *)
(* int(parts[1]) is evaluated only for four parts whose first is "192" or  *)
(* "172".                                                                  *)
(***************************************************************************)
is_private_ip(ip_address) ==
    LET parts == split(ip_address) IN
    IF Len(parts) # 4 THEN [exc |-> "none", value |-> FALSE]
    ELSE IF parts[1] \notin {"10", "192", "172"} THEN [exc |-> "none", value |-> FALSE]
    ELSE IF parts[1] = "10" THEN [exc |-> "none", value |-> TRUE]
    ELSE LET n == int(parts[2]) IN
         IF n.exc # "none" THEN [exc |-> n.exc, value |-> FALSE]
         ELSE [exc |-> "none", value |-> 16 <= n.value /\ n.value <= 31]

(***************************************************************************)
(* The two MaxMind database files and geoip2.database.Reader, as far as    *)
(* lookup uses them.  A file is present or missing; a present file maps    *)
(* each address to <<>> (no entry) or <<response>>.                        *)
(***************************************************************************)
AsnResponses ==
    [autonomous_system_number : {None, Some(15169)},
     autonomous_system_organization : {None, Some("GOOGLE")}]

CityResponses ==
    [city : {None, Some(""), Some("Paris")},
     subdivision : {None, Some(""), Some("Paris Region")},
     country : {None, Some("France")},
     subdivision_iso : {None, Some("IDF")},
     country_iso : {None, Some("FR")},
     latitude : {None, Some(48)},
     longitude : {None, Some(2)}]

\* The reader parses the address before it searches: a string that is not a
\* dotted quad of octets raises ValueError.
ValidAddress(ip_address) ==
    LET parts == split(ip_address) IN
    /\ Len(parts) = 4
    /\ \A i \in 1..4 : AllDigits(parts[i]) /\ DigitsValue(parts[i], Len(parts[i])) <= 255

reader_query(file, ip_address) ==
    IF ~ValidAddress(ip_address) THEN [exc |-> "ValueError", response |-> <<>>]
    ELSE IF file.entries[ip_address] = <<>> THEN [exc |-> "AddressNotFoundError", response |-> <<>>]
    ELSE [exc |-> "none", response |-> file.entries[ip_address]]

(***************************************************************************)
(* GeoIP.lookup.                                                           *)
(***************************************************************************)
RECURSIVE join(_, _)
join(sep, items) ==
    IF Len(items) = 0 THEN ""
    ELSE IF Len(items) = 1 THEN items[1]
    ELSE items[1] \o sep \o join(sep, Tail(items))

\* JoinLocation keeping an empty name: it tests "is not None" where the code
\* tests truthiness.
JoinLocationKeepsEmpty(city, subdivision, country) ==
    LET location == (IF city # None THEN <<city[1]>> ELSE <<>>)
                    \o (IF subdivision # None THEN <<subdivision[1]>> ELSE <<>>)
                    \o (IF country # None THEN <<country[1]>> ELSE <<>>)
    IN  join(", ", location)

JoinLocation(city, subdivision, country) ==
    LET location == (IF Truthy(city) THEN <<city[1]>> ELSE <<>>)
                    \o (IF Truthy(subdivision) THEN <<subdivision[1]>> ELSE <<>>)
                    \o (IF Truthy(country) THEN <<country[1]>> ELSE <<>>)
    IN  join(", ", location)

\* FoundResults with the country entered before the subdivision.
FoundResultsCountryFirst(ip_address, asn_response, city_response) ==
    << <<"ip_address", ip_address>>,
       <<"asn", asn_response.autonomous_system_number>>,
       <<"organization", asn_response.autonomous_system_organization>>,
       <<"location_string",
         Some(JoinLocation(city_response.city, city_response.subdivision, city_response.country))>>,
       <<"city", city_response.city>>,
       <<"country", city_response.country>>,
       <<"subdivision", city_response.subdivision>>,
       <<"subdivision_iso", city_response.subdivision_iso>>,
       <<"country_iso", city_response.country_iso>>,
       <<"latitude", city_response.latitude>>,
       <<"longitude", city_response.longitude>> >>

FoundResults(ip_address, asn_response, city_response) ==
    << <<"ip_address", ip_address>>,
       <<"asn", asn_response.autonomous_system_number>>,
       <<"organization", asn_response.autonomous_system_organization>>,
       <<"location_string",
         Some(JoinLocation(city_response.city, city_response.subdivision, city_response.country))>>,
       <<"city", city_response.city>>,
       <<"subdivision", city_response.subdivision>>,
       <<"country", city_response.country>>,
       <<"subdivision_iso", city_response.subdivision_iso>>,
       <<"country_iso", city_response.country_iso>>,
       <<"latitude", city_response.latitude>>,
       <<"longitude", city_response.longitude>> >>

\* NotFoundResults with an empty location_string where the code has None.
NotFoundResultsEmptyLocation(ip_address) ==
    << <<"ip_address", ip_address>>,
       <<"asn", None>>,
       <<"organization", None>>,
       <<"location_string", Some("")>>,
       <<"city", None>>,
       <<"subdivision", None>>,
       <<"country", None>>,
       <<"subdivision_iso", None>>,
       <<"country_iso", None>>,
       <<"latitude", None>>,
       <<"longitude", None>> >>

NotFoundResults(ip_address) ==
    << <<"ip_address", ip_address>>,
       <<"asn", None>>,
       <<"organization", None>>,
       <<"location_string", None>>,
       <<"city", None>>,
       <<"subdivision", None>>,
       <<"country", None>>,
       <<"subdivision_iso", None>>,
       <<"country_iso", None>>,
       <<"latitude", None>>,
       <<"longitude", None>> >>

\* What a call of lookup does: exc is the exception that left it ("none" when
\* it returned), results the OrderedDict returned, opened the number of
\* database files it opened and queries the number of reader queries it made.
LookupOutcome(exc, results, opened, queries) ==
    [exc |-> exc, results |-> results, opened |-> opened, queries |-> queries]

lookup(fs, ip_address) ==
    IF ~fs.asn.present THEN LookupOutcome("FileNotFoundError", <<>>, 0, 0)
    ELSE LET asn == reader_query(fs.asn, ip_address) IN
    IF asn.exc = "AddressNotFoundError" THEN LookupOutcome("none", NotFoundResults(ip_address), 1, 1)
    ELSE IF asn.exc # "none" THEN LookupOutcome(asn.exc, <<>>, 1, 1)
    ELSE IF ~fs.city.present THEN LookupOutcome("FileNotFoundError", <<>>, 1, 1)
    ELSE LET city == reader_query(fs.city, ip_address) IN
    IF city.exc = "AddressNotFoundError" THEN LookupOutcome("none", NotFoundResults(ip_address), 2, 2)
    ELSE IF city.exc # "none" THEN LookupOutcome(city.exc, <<>>, 2, 2)
    ELSE LookupOutcome("none", FoundResults(ip_address, asn.response[1], city.response[1]), 2, 2)

(***************************************************************************)
(* str.strip() and json.dumps.  The serialization is a sequence of tokens, *)
(* each a sequence: <<"[">> and <<"]">> around a list, and one token per   *)
(* OrderedDict.                                                            *)
(***************************************************************************)
Whitespace == {" ", "\t", "\n", "\r"}

RECURSIVE lstrip(_)
lstrip(s) ==
    IF Len(s) > 0 /\ CharAt(s, 1) \in Whitespace THEN lstrip(SubSeq(s, 2, Len(s))) ELSE s

RECURSIVE rstrip(_)
rstrip(s) ==
    IF Len(s) > 0 /\ CharAt(s, Len(s)) \in Whitespace THEN rstrip(SubSeq(s, 1, Len(s) - 1)) ELSE s

strip(s) == rstrip(lstrip(s))

json_dumps(value) ==
    IF value.is_list THEN << <<"[">> >> \o value.items \o << <<"]">> >>
    ELSE value.items

(***************************************************************************)
(* State.                                                                  *)
(***************************************************************************)
VARIABLES
    cl_ip,          \* is_private_ip: the argument
    cl_ret,         \* is_private_ip: what the call did
    lk_ip,          \* lookup: the argument
    lk_fs,          \* lookup: the database files
    lk_ret,         \* lookup: what the call did
    args,           \* _main: the parsed command line
    infile,         \* the lines of the input file
    fs,             \* the database files of the run
    outfile,        \* the output file: None when absent, else Some(tokens)
    outfile_before, \* the output file as it was before the run
    pc,             \* where the main thread is
    exc,            \* the exception that ended the run, "none" otherwise
    ip_addresses,   \* process_ip_addresses: ip_addresses
    output_data,    \* process_ip_addresses: output_data
    stdout,         \* the lines printed
    futures,        \* future_to_ip, in submission order
    work_queue,     \* the executor's queue of futures not yet taken
    workers,        \* per worker thread: the future it runs, 0 when idle
    results,        \* _main: results
    lookup_calls,   \* calls of GeoIP.lookup so far
    readers_opened  \* database files opened so far

cl_vars == <<cl_ip, cl_ret>>
lk_vars == <<lk_ip, lk_fs, lk_ret>>
env_vars == <<args, infile, fs, outfile_before>>
pool_vars == <<futures, work_queue, workers>>
main_vars == <<env_vars, outfile, pc, exc, ip_addresses, output_data, stdout, pool_vars,
               results, lookup_calls, readers_opened>>
vars == <<cl_vars, lk_vars, main_vars>>

(***************************************************************************)
(* The inputs the calls are made with.                                     *)
(***************************************************************************)
FirstParts == {"10", "172", "192", "8"}
SecondParts == {"0", "15", "16", "31", "32", "168", "x"}
Tails == {".1", ".1.1", ".1.1.1"}

ClassifyAddresses ==
    {f \o "." \o sec \o t : f \in FirstParts, sec \in SecondParts, t \in Tails}
    \cup {"10.0.0.1", "172.16.5.5", "192.0.2.1", "172.32.0.1", "8.8.8.8", "bad", "", "172..1.1"}

LookupAddresses ==
    {"8.8.8.8", "10.0.0.1", "172.16.5.5", "172.32.0.1", "192.0.2.1", "192.16.0.1",
     "192.168.1.1", "10.x.y.z", "256.1.1.1", "bad", ""}

Entries(responses) == {<<>>} \cup {<<r>> : r \in responses}

\* Coordinates come as a pair.
LocatedCityResponses == {r \in CityResponses : (r.latitude = None) <=> (r.longitude = None)}

DbFile(present, entries) == [present |-> present, entries |-> entries]

NotCalled == [called |-> FALSE, exc |-> "none"]

ApiIdle ==
    /\ cl_ip = "" /\ cl_ret = NotCalled
    /\ lk_ip = "" /\ lk_fs = <<>> /\ lk_ret = NotCalled

MainIdle ==
    /\ args = <<>> /\ infile = <<>> /\ fs = <<>>
    /\ outfile = None /\ outfile_before = None
    /\ pc = "idle" /\ exc = "none"
    /\ ip_addresses = <<>> /\ output_data = <<>> /\ stdout = <<>>
    /\ futures = <<>> /\ work_queue = <<>> /\ workers = <<>>
    /\ results = <<>> /\ lookup_calls = 0 /\ readers_opened = 0

(***************************************************************************)
(* A client calling GeoIP.is_private_ip.                                   *)
(***************************************************************************)
InitClassify ==
    /\ cl_ip \in ClassifyAddresses
    /\ cl_ret = NotCalled
    /\ lk_ip = "" /\ lk_fs = <<>> /\ lk_ret = NotCalled
    /\ MainIdle

CallIsPrivate ==
    /\ ~cl_ret.called
    /\ cl_ret' = [called |-> TRUE, exc |-> is_private_ip(cl_ip).exc,
                  value |-> is_private_ip(cl_ip).value]
    /\ UNCHANGED <<cl_ip, lk_vars, main_vars>>

NextClassify == CallIsPrivate

SpecClassify == InitClassify /\ [][NextClassify]_vars

(***************************************************************************)
(* A client calling GeoIP.lookup.                                          *)
(***************************************************************************)
InitLookup ==
    /\ cl_ip = "" /\ cl_ret = NotCalled
    /\ lk_ip \in LookupAddresses
    /\ \E asn_present \in BOOLEAN, city_present \in BOOLEAN,
          asn_entry \in Entries(AsnResponses), city_entry \in Entries(LocatedCityResponses) :
            lk_fs = [asn |-> DbFile(asn_present, lk_ip :> asn_entry),
                     city |-> DbFile(city_present, lk_ip :> city_entry)]
    /\ lk_ret = NotCalled
    /\ MainIdle

CallLookup ==
    /\ ~lk_ret.called
    /\ LET r == lookup(lk_fs, lk_ip) IN
       lk_ret' = [called |-> TRUE, exc |-> r.exc, results |-> r.results,
                  opened |-> r.opened, queries |-> r.queries]
    /\ UNCHANGED <<lk_ip, lk_fs, cl_vars, main_vars>>

NextLookup == CallLookup

SpecLookup == InitLookup /\ [][NextLookup]_vars

(***************************************************************************)
(* Properties of is_private_ip and lookup.                                 *)
(***************************************************************************)
FieldNames ==
    <<"ip_address", "asn", "organization", "location_string", "city", "subdivision",
      "country", "subdivision_iso", "country_iso", "latitude", "longitude">>

Field(record, name) ==
    record[CHOOSE i \in 1..Len(FieldNames) : FieldNames[i] = name][2]

\* A record of the eleven fields, in order, all None but ip_address.
AllNullRecord(record, ip_address) ==
    /\ Len(record) = Len(FieldNames)
    /\ \A i \in 1..Len(FieldNames) : Len(record[i]) = 2 /\ record[i][1] = FieldNames[i]
    /\ record[1][2] = ip_address
    /\ \A i \in 2..Len(FieldNames) : record[i][2] = None

ClaimedPrivate(ip_address) ==
    LET parts == split(ip_address) IN
    /\ Len(parts) = 4
    /\ \/ parts[1] = "10"
       \/ parts[1] = "172" /\ int(parts[2]).exc = "none"
                           /\ int(parts[2]).value \in 16..31
       \/ parts[1] = "192"

\* C5: is_private_ip returns true exactly for an address of four dot-separated
\* parts whose first part is "10", or "172" with the second part an integer
\* in 16..31, or "192" whatever the second part (stated for the calls that
\* return).
C5_PrivateExactlyAsClaimed ==
    (cl_ret.called /\ cl_ret.exc = "none") => (cl_ret.value <=> ClaimedPrivate(cl_ip))

ClassifiedPrivate(ip_address) ==
    is_private_ip(ip_address).exc = "none" /\ is_private_ip(ip_address).value

\* C3: for an address that is_private_ip classifies as private, lookup returns
\* the record with every field but ip_address None, and it opens and queries
\* neither database.
C3_PrivateSkipsDatabases ==
    (lk_ret.called /\ ClassifiedPrivate(lk_ip)) =>
        /\ lk_ret.exc = "none"
        /\ AllNullRecord(lk_ret.results, lk_ip)
        /\ lk_ret.opened = 0
        /\ lk_ret.queries = 0

AsnQueried == lk_fs.asn.present /\ ValidAddress(lk_ip)
AsnNotFound == AsnQueried /\ lk_fs.asn.entries[lk_ip] = <<>>
AsnFound == AsnQueried /\ lk_fs.asn.entries[lk_ip] # <<>>
CityNotFound == AsnFound /\ lk_fs.city.present /\ lk_fs.city.entries[lk_ip] = <<>>
BothFound == AsnFound /\ lk_fs.city.present /\ lk_fs.city.entries[lk_ip] # <<>>

\* C4: when the ASN query or the City query of a lookup signals that the
\* address is not found, lookup returns without raising, and the record has
\* the input as ip_address and None in the ten other fields, also when the
\* ASN query had succeeded.
C4_NotFoundGivesAllNull ==
    (lk_ret.called /\ (AsnNotFound \/ CityNotFound)) =>
        /\ lk_ret.exc = "none"
        /\ AllNullRecord(lk_ret.results, lk_ip)

C4_Witness ==
    /\ lk_ret.called /\ CityNotFound /\ ~ClassifiedPrivate(lk_ip)
    /\ lk_fs.asn.entries[lk_ip] = <<[autonomous_system_number |-> Some(15169),
                                     autonomous_system_organization |-> Some("GOOGLE")]>>
    /\ lk_ret.exc = "none"
    /\ Field(lk_ret.results, "asn") = None

\* C8: every record lookup returns has exactly the eleven fields, in order,
\* each present even when None, and its ip_address is the input string.
C8_ElevenFieldsInOrder ==
    (lk_ret.called /\ lk_ret.exc = "none") =>
        /\ Len(lk_ret.results) = 11
        /\ \A i \in 1..11 : Len(lk_ret.results[i]) = 2 /\ lk_ret.results[i][1] = FieldNames[i]
        /\ lk_ret.results[1][2] = lk_ip

C8_Witness ==
    /\ lk_ret.called /\ lk_ret.exc = "none" /\ BothFound
    /\ ClassifiedPrivate(lk_ip)
    /\ lk_ret.results[7] = <<"country", Some("France")>>
    /\ lk_ret.results[6] = <<"subdivision", None>>

Named(x) == x # None /\ x # Some("")

ExpectedLocation(city, subdivision, country) ==
    CASE Named(city) /\ Named(subdivision) /\ Named(country) ->
            city[1] \o ", " \o subdivision[1] \o ", " \o country[1]
      [] Named(city) /\ Named(subdivision) /\ ~Named(country) -> city[1] \o ", " \o subdivision[1]
      [] Named(city) /\ ~Named(subdivision) /\ Named(country) -> city[1] \o ", " \o country[1]
      [] ~Named(city) /\ Named(subdivision) /\ Named(country) -> subdivision[1] \o ", " \o country[1]
      [] Named(city) /\ ~Named(subdivision) /\ ~Named(country) -> city[1]
      [] ~Named(city) /\ Named(subdivision) /\ ~Named(country) -> subdivision[1]
      [] ~Named(city) /\ ~Named(subdivision) /\ Named(country) -> country[1]
      [] OTHER -> ""

\* C9: when both queries succeed, location_string is the non-null, non-empty
\* ones of city, subdivision and country, in that order, joined by ", ":
\* "Paris, France" for Paris, None, France and "" when all three are None.
C9_LocationString ==
    (lk_ret.called /\ BothFound) =>
        LET city == lk_fs.city.entries[lk_ip][1] IN
        /\ lk_ret.exc = "none"
        /\ Field(lk_ret.results, "location_string")
             = Some(ExpectedLocation(city.city, city.subdivision, city.country))
        /\ (city.city = Some("Paris") /\ city.subdivision = None /\ city.country = Some("France"))
             => Field(lk_ret.results, "location_string") = Some("Paris, France")
        /\ (city.city = None /\ city.subdivision = None /\ city.country = None)
             => Field(lk_ret.results, "location_string") = Some("")

C9_Witness ==
    /\ lk_ret.called /\ BothFound /\ lk_ret.exc = "none"
    /\ Field(lk_ret.results, "city") = Some("Paris")
    /\ Field(lk_ret.results, "subdivision") = Some("")
    /\ Field(lk_ret.results, "location_string") = Some("Paris, France")

(***************************************************************************)
(* The program: _main, process_ip_addresses and the worker threads of its  *)
(* ThreadPoolExecutor.                                                     *)
(***************************************************************************)
MaxLines == 3
MaxThreads == 2

InputLines == {"8.8.8.8\n", "10.0.0.1 \n", "bad\n", "\n"}
ArgAddresses == {"8.8.8.8", "10.0.0.1", "bad"}
SeqsUpTo(S, n) == UNION {[1..k -> S] : k \in 0..n}

Google ==
    [autonomous_system_number |-> Some(15169), autonomous_system_organization |-> Some("GOOGLE")]
UnitedStates ==
    [city |-> None, subdivision |-> None, country |-> Some("United States"),
     subdivision_iso |-> None, country_iso |-> Some("US"),
     latitude |-> Some(37), longitude |-> Some(-97)]

\* The database directory of a run: missing, or holding both files.
MainFileSystems ==
    {[asn |-> DbFile(present, ("8.8.8.8" :> <<Google>>) @@ ("10.0.0.1" :> <<>>)),
      city |-> DbFile(present, ("8.8.8.8" :> city_entry) @@ ("10.0.0.1" :> <<>>))] :
        present \in BOOLEAN, city_entry \in {<<>>, <<UnitedStates>>}}

InitMain ==
    /\ ApiIdle
    /\ \/ /\ infile \in SeqsUpTo(InputLines, MaxLines)
          /\ \E n \in 1..MaxThreads :
                args = [input_file |-> TRUE, ip_address |-> <<>>, num_threads |-> n]
       \/ /\ infile = <<>>
          /\ \E ips \in SeqsUpTo(ArgAddresses, MaxLines) :
                args = [input_file |-> FALSE, ip_address |-> ips, num_threads |-> 4]
    /\ fs \in MainFileSystems
    /\ outfile_before \in {None, Some(<< <<"earlier output">> >>)}
    /\ outfile = outfile_before
    /\ pc = "main" /\ exc = "none"
    /\ ip_addresses = <<>> /\ output_data = <<>> /\ stdout = <<>>
    /\ futures = <<>> /\ work_queue = <<>> /\ workers = <<>>
    /\ results = [is_list |-> TRUE, items |-> <<>>]
    /\ lookup_calls = 0 /\ readers_opened = 0

\* _main after parse_args: the batch when an input file is given.
Main ==
    /\ pc = "main"
    /\ pc' = IF args.input_file THEN "read_input" ELSE "lookup_args"
    /\ UNCHANGED <<cl_vars, lk_vars, env_vars, outfile, exc, ip_addresses, output_data, stdout,
                   pool_vars, results, lookup_calls, readers_opened>>

\* GeoIP(database_directory) only builds the two paths; then the input file is
\* read, every line stripped and the blank ones dropped.
RECURSIVE StrippedLines(_)
StrippedLines(lines) ==
    IF lines = <<>> THEN <<>>
    ELSE (IF strip(Head(lines)) # "" THEN <<strip(Head(lines))>> ELSE <<>>)
         \o StrippedLines(Tail(lines))

ReadInput ==
    /\ pc = "read_input"
    /\ ip_addresses' = StrippedLines(infile)
    /\ pc' = "create_pool"
    /\ UNCHANGED <<cl_vars, lk_vars, env_vars, outfile, exc, output_data, stdout,
                   pool_vars, results, lookup_calls, readers_opened>>

CreatePool ==
    /\ pc = "create_pool"
    /\ workers' = [w \in 1..args.num_threads |-> 0]
    /\ pc' = "submit"
    /\ UNCHANGED <<cl_vars, lk_vars, env_vars, outfile, exc, ip_addresses, output_data, stdout,
                   futures, work_queue, results, lookup_calls, readers_opened>>

\* One executor.submit of the dict comprehension.
Submit ==
    /\ pc = "submit"
    /\ Len(futures) < Len(ip_addresses)
    /\ futures' = Append(futures, [ip |-> ip_addresses[Len(futures) + 1], state |-> "pending",
                                   exc |-> "none", result |-> <<>>])
    /\ work_queue' = Append(work_queue, Len(futures) + 1)
    /\ UNCHANGED <<cl_vars, lk_vars, env_vars, outfile, pc, exc, ip_addresses, output_data, stdout,
                   workers, results, lookup_calls, readers_opened>>

\* A worker thread takes the oldest queued future.
WorkerTake(w) ==
    /\ pc \in {"submit", "pool_exit"}
    /\ workers[w] = 0
    /\ work_queue # <<>>
    /\ workers' = [workers EXCEPT ![w] = Head(work_queue)]
    /\ work_queue' = Tail(work_queue)
    /\ futures' = [futures EXCEPT ![Head(work_queue)].state = "running"]
    /\ UNCHANGED <<cl_vars, lk_vars, env_vars, outfile, pc, exc, ip_addresses, output_data, stdout,
                   results, lookup_calls, readers_opened>>

\* process_ip_address in a worker thread: the future keeps what lookup
\* returned or raised.
WorkerRun(w) ==
    /\ pc \in {"submit", "pool_exit"}
    /\ workers[w] # 0
    /\ LET r == lookup(fs, futures[workers[w]].ip) IN
       /\ futures' = [futures EXCEPT ![workers[w]] =
                        [ip |-> @.ip, state |-> "finished", exc |-> r.exc, result |-> r.results]]
       /\ readers_opened' = readers_opened + r.opened
    /\ lookup_calls' = lookup_calls + 1
    /\ workers' = [workers EXCEPT ![w] = 0]
    /\ UNCHANGED <<cl_vars, lk_vars, env_vars, outfile, pc, exc, ip_addresses, output_data, stdout,
                   work_queue, results>>

\* "for future in concurrent.futures.as_completed(...)": the module imports
\* ThreadPoolExecutor from concurrent.futures and never binds the name
\* concurrent, so evaluating it raises NameError and the loop body (the
\* appends to output_data, the per-address error prints) never runs.
AsCompleted ==
    /\ pc = "submit"
    /\ Len(futures) = Len(ip_addresses)
    /\ exc' = "NameError"
    /\ pc' = "pool_exit"
    /\ UNCHANGED <<cl_vars, lk_vars, env_vars, outfile, ip_addresses, output_data, stdout,
                   pool_vars, results, lookup_calls, readers_opened>>

\* Leaving the with block: shutdown(wait=True) returns once the workers have
\* run every submitted future; then the exception leaves
\* process_ip_addresses and _main, and the output file is never opened.
PoolExit ==
    /\ pc = "pool_exit"
    /\ \A i \in 1..Len(futures) : futures[i].state = "finished"
    /\ pc' = "raised"
    /\ UNCHANGED <<cl_vars, lk_vars, env_vars, outfile, exc, ip_addresses, output_data, stdout,
                   pool_vars, results, lookup_calls, readers_opened>>

\* _main without an input file: one lookup per address argument, each on a
\* new GeoIP; a single address gives the record itself, otherwise a list.
LookupArg ==
    /\ pc = "lookup_args"
    /\ Len(results.items) < Len(args.ip_address)
    /\ LET r == lookup(fs, args.ip_address[Len(results.items) + 1]) IN
       /\ readers_opened' = readers_opened + r.opened
       /\ IF r.exc = "none"
          THEN /\ results' = [is_list |-> Len(args.ip_address) # 1,
                              items |-> Append(results.items, r.results)]
               /\ UNCHANGED <<pc, exc>>
          ELSE /\ pc' = "raised"
               /\ exc' = r.exc
               /\ UNCHANGED results
    /\ lookup_calls' = lookup_calls + 1
    /\ UNCHANGED <<cl_vars, lk_vars, env_vars, outfile, ip_addresses, output_data, stdout, pool_vars>>

\* open(args.output_file, "w") creates or truncates the file.
OpenOutput ==
    /\ pc = "lookup_args"
    /\ Len(results.items) = Len(args.ip_address)
    /\ outfile' = Some(<<>>)
    /\ pc' = "write_output"
    /\ UNCHANGED <<cl_vars, lk_vars, env_vars, exc, ip_addresses, output_data, stdout, pool_vars,
                   results, lookup_calls, readers_opened>>

printed(value) == json_dumps(value) \o << <<"\n">> >>

WriteOutput ==
    /\ pc = "write_output"
    /\ outfile' = Some(printed(results))
    /\ pc' = "done"
    /\ UNCHANGED <<cl_vars, lk_vars, env_vars, exc, ip_addresses, output_data, stdout, pool_vars,
                   results, lookup_calls, readers_opened>>

\* The write or the flush at close fails (a full disk, an I/O error): the
\* file keeps what had reached it.
WriteOutputFails ==
    /\ pc = "write_output"
    /\ \E k \in 0..(Len(printed(results)) - 1) :
          outfile' = Some(SubSeq(printed(results), 1, k))
    /\ pc' = "raised"
    /\ exc' = "OSError"
    /\ UNCHANGED <<cl_vars, lk_vars, env_vars, ip_addresses, output_data, stdout, pool_vars,
                   results, lookup_calls, readers_opened>>

Next ==
    \/ Main
    \/ ReadInput
    \/ CreatePool
    \/ Submit
    \/ \E w \in DOMAIN workers : WorkerTake(w)
    \/ \E w \in DOMAIN workers : WorkerRun(w)
    \/ AsCompleted
    \/ PoolExit
    \/ LookupArg
    \/ OpenOutput
    \/ WriteOutput
    \/ WriteOutputFails

Spec == InitMain /\ [][Next]_vars

(***************************************************************************)
(* Properties of the batch and of the output file.                         *)
(***************************************************************************)
Ended == pc \in {"done", "raised"}
BatchEnded == args.input_file /\ Ended

Count(seq, Test(_)) == Cardinality({i \in 1..Len(seq) : Test(seq[i])})

Submitted(a) == LET Is(x) == x = a IN Count(ip_addresses, Is)
Resolved(a) == LET Is(record) == record[1][2] = a IN Count(output_data, Is)
\* A printed line "Error processing IP address <ip>: <e>" is kept as the pair
\* <<ip, e>>.
Logged(a) == LET Is(line) == line[1] = a IN Count(stdout, Is)

Raises(a) == lookup(fs, a).exc # "none"

\* C1: the batch ends only after every submitted address has been resolved
\* or has failed, and when it has ended every submitted address has exactly
\* one outcome: a record in output_data or a printed error naming it.
C1_EveryAddressOneOutcome ==
    BatchEnded =>
        /\ ip_addresses = StrippedLines(infile)
        /\ Len(futures) = Len(ip_addresses)
        /\ \A i \in 1..Len(futures) : futures[i].state = "finished"
        /\ \A i \in 1..Len(ip_addresses) :
              Resolved(ip_addresses[i]) + Logged(ip_addresses[i]) = Submitted(ip_addresses[i])

\* C2: when the lookup of exactly one of the N addresses of a batch raises
\* (the databases being there), the batch ends with N-1 records, one printed error naming that address and,
\* for every other address, the record its lookup gives.
C2_OneFailureIsolated ==
    LET failing == {i \in 1..Len(ip_addresses) : Raises(ip_addresses[i])} IN
    (BatchEnded /\ fs.asn.present /\ fs.city.present /\ Cardinality(failing) = 1) =>
        /\ Len(output_data) = Len(ip_addresses) - 1
        /\ Len(stdout) = 1
        /\ \A i \in failing : Logged(ip_addresses[i]) = 1
        /\ \A i \in (1..Len(ip_addresses)) \ failing :
              \E j \in 1..Len(output_data) : output_data[j] = lookup(fs, ip_addresses[i]).results

\* C6: with the database files missing the run fails at startup, before any
\* lookup is attempted, and never ends normally with an output file written.
\* The lookup that finds the files missing is allowed for: what is required is
\* that no lookup follows it and that the run does not end normally.
C6_MissingDatabaseFailsFirst ==
    (~fs.asn.present \/ ~fs.city.present) =>
        /\ lookup_calls <= 1
        /\ pc # "done"

C10_NoPartialOutput ==
    (pc = "raised") =>
        \/ outfile = outfile_before
        \/ outfile = Some(printed(IF args.input_file
                                  THEN [is_list |-> TRUE, items |-> output_data]
                                  ELSE results))

====
